---- MODULE Spec2Model ----
(***************************************************************************)
(* Model of the BMSCE assistant client (src/client.py): the turn loop of   *)
(* main, one turn of MCPClient.chat_with_mistral (tool selection, decision *)
(* extraction, argument validation, tool invocation, result                *)
(* classification, rendering) and generate_response.                       *)
(*                                                                         *)
(* Texts (user messages, completions of the generation backend, tool       *)
(* payloads, prompts' parts) are sequences of lexical tokens.  A token is  *)
(* a record [t, s]: t is its kind, s its content.                          *)
(***************************************************************************)
EXTENDS Integers, Sequences, FiniteSets, TLC

----------------------------------------------------------------------------
(* Tokens *)

Tok(t, s) == [t |-> t, s |-> s]
LB == Tok("lbrace", "{")
RB == Tok("rbrace", "}")
LK == Tok("lbrack", "[")
RK == Tok("rbrack", "]")
CL == Tok("colon", ":")
CM == Tok("comma", ",")
WS == Tok("ws", " ")
NUL == Tok("null", "null")
FenceJson == Tok("fence", "fence-json")
Fence == Tok("fence", "fence")
S(s) == Tok("str", s)
N(s) == Tok("num", s)
W(s) == Tok("word", s)

----------------------------------------------------------------------------
(* JSON values: [k, s, items].  k is the kind; s the content of a string   *)
(* or number; items the elements of a list, or the <<key, value>> pairs of *)
(* a mapping in source order.                                              *)

JStr(s) == [k |-> "str", s |-> s, items |-> <<>>]
JNum(s) == [k |-> "num", s |-> s, items |-> <<>>]
JNull == [k |-> "null", s |-> "", items |-> <<>>]
JList(items) == [k |-> "list", s |-> "", items |-> items]
JDict(pairs) == [k |-> "dict", s |-> "", items |-> pairs]

\* None of Python, where a value is optional (no decision extracted)
None == [k |-> "None", s |-> "", items |-> <<>>]

\* truthiness of a JSON value in Python
Truthy(v) ==
    CASE v.k = "str" -> v.s # ""
      [] v.k = "num" -> v.s # "0"
      [] v.k = "list" -> Len(v.items) > 0
      [] v.k = "dict" -> Len(v.items) > 0
      [] OTHER -> FALSE

\* key in d, for a mapping d
HasKey(d, key) == \E i \in 1..Len(d.items) : d.items[i][1] = key

\* d[key] for a mapping d that has the key: json.loads keeps the last of
\* repeated keys
Lookup(d, key) ==
    LET idx == {i \in 1..Len(d.items) : d.items[i][1] = key}
        last == CHOOSE i \in idx : \A j \in idx : j <= i
    IN d.items[last][2]

----------------------------------------------------------------------------
(* json.loads on a token sequence: recursive descent over values, lists    *)
(* and mappings, whitespace allowed between tokens, nothing but whitespace *)
(* after the value.                                                        *)

ParseFail == [ok |-> FALSE, val |-> JNull, next |-> 0]
ParseOk(v, n) == [ok |-> TRUE, val |-> v, next |-> n]

RECURSIVE SkipWs(_, _)
SkipWs(toks, i) ==
    IF i <= Len(toks) /\ toks[i].t = "ws" THEN SkipWs(toks, i + 1) ELSE i

RECURSIVE ParseValue(_, _), ParseItems(_, _, _), ParseMembers(_, _, _)
ParseValue(toks, i0) ==
    LET i == SkipWs(toks, i0) IN
    IF i > Len(toks) THEN ParseFail
    ELSE CASE toks[i].t = "str" -> ParseOk(JStr(toks[i].s), i + 1)
           [] toks[i].t = "num" -> ParseOk(JNum(toks[i].s), i + 1)
           [] toks[i].t = "null" -> ParseOk(JNull, i + 1)
           [] toks[i].t = "lbrack" ->
                LET j == SkipWs(toks, i + 1) IN
                IF j <= Len(toks) /\ toks[j].t = "rbrack"
                THEN ParseOk(JList(<<>>), j + 1)
                ELSE ParseItems(toks, i + 1, <<>>)
           [] toks[i].t = "lbrace" ->
                LET j == SkipWs(toks, i + 1) IN
                IF j <= Len(toks) /\ toks[j].t = "rbrace"
                THEN ParseOk(JDict(<<>>), j + 1)
                ELSE ParseMembers(toks, i + 1, <<>>)
           [] OTHER -> ParseFail

ParseItems(toks, i, acc) ==
    LET r == ParseValue(toks, i) IN
    IF ~r.ok THEN ParseFail
    ELSE LET j == SkipWs(toks, r.next) IN
         IF j > Len(toks) THEN ParseFail
         ELSE IF toks[j].t = "comma"
              THEN ParseItems(toks, j + 1, Append(acc, r.val))
         ELSE IF toks[j].t = "rbrack"
              THEN ParseOk(JList(Append(acc, r.val)), j + 1)
         ELSE ParseFail

ParseMembers(toks, i0, acc) ==
    LET i == SkipWs(toks, i0) IN
    IF i > Len(toks) \/ toks[i].t # "str" THEN ParseFail
    ELSE LET c == SkipWs(toks, i + 1) IN
         IF c > Len(toks) \/ toks[c].t # "colon" THEN ParseFail
         ELSE LET r == ParseValue(toks, c + 1) IN
              IF ~r.ok THEN ParseFail
              ELSE LET j == SkipWs(toks, r.next)
                       acc2 == Append(acc, <<toks[i].s, r.val>>)
                   IN IF j > Len(toks) THEN ParseFail
                      ELSE IF toks[j].t = "comma"
                           THEN ParseMembers(toks, j + 1, acc2)
                      ELSE IF toks[j].t = "rbrace"
                           THEN ParseOk(JDict(acc2), j + 1)
                      ELSE ParseFail

\* json.loads(text): [ok, val]; ok = FALSE stands for json.JSONDecodeError
JsonLoads(toks) ==
    LET r == ParseValue(toks, 1) IN
    IF r.ok /\ SkipWs(toks, r.next) > Len(toks)
    THEN [ok |-> TRUE, val |-> r.val]
    ELSE [ok |-> FALSE, val |-> JNull]

----------------------------------------------------------------------------
(* _extract_tool_call *)

\* text.replace(fence-json, empty).replace(fence, empty)
RECURSIVE StripFences(_)
StripFences(toks) ==
    IF toks = <<>> THEN <<>>
    ELSE IF Head(toks).t = "fence" THEN StripFences(Tail(toks))
    ELSE <<Head(toks)>> \o StripFences(Tail(toks))

\* str.strip()
RECURSIVE StripLeft(_)
StripLeft(toks) ==
    IF toks # <<>> /\ Head(toks).t = "ws" THEN StripLeft(Tail(toks)) ELSE toks
RECURSIVE StripRight(_)
StripRight(toks) ==
    IF toks # <<>> /\ toks[Len(toks)].t = "ws"
    THEN StripRight(SubSeq(toks, 1, Len(toks) - 1)) ELSE toks
Strip(toks) == StripRight(StripLeft(toks))

\* Find that returns the index of the last match, as rfind does
FindLast(toks, t) ==
    LET idx == {i \in 1..Len(toks) : toks[i].t = t} IN
    IF idx = {} THEN -1 ELSE (CHOOSE i \in idx : \A j \in idx : j <= i) - 1

\* text.find('{'): index of the first '{', 0-based, -1 when absent
Find(toks, t) ==
    LET idx == {i \in 1..Len(toks) : toks[i].t = t} IN
    IF idx = {} THEN -1 ELSE (CHOOSE i \in idx : \A j \in idx : i <= j) - 1

\* text.rfind('}'): index of the last '}', 0-based, -1 when absent
RFind(toks, t) ==
    LET idx == {i \in 1..Len(toks) : toks[i].t = t} IN
    IF idx = {} THEN -1 ELSE (CHOOSE i \in idx : \A j \in idx : j <= i) - 1

\* _extract_tool_call(text): the parsed object, or None
ExtractToolCall(text) ==
    LET stripped == Strip(StripFences(text))
        start == Find(stripped, "lbrace")
        end == RFind(stripped, "rbrace") + 1
    IN IF start # -1 /\ end > start
       THEN LET parsed == JsonLoads(SubSeq(stripped, start + 1, end)) IN
            IF parsed.ok /\ HasKey(parsed.val, "tool")
                         /\ HasKey(parsed.val, "arguments")
            THEN parsed.val
            ELSE None
       ELSE None

----------------------------------------------------------------------------
(* Argument validation (chat_with_mistral, step 2) *)

\* self.tool_arg_map: the tools that require arguments
tool_arg_map ==
    [t \in {"query_knowledge_base", "get_professor_details"} |->
        IF t = "query_knowledge_base" THEN <<"query_text">> ELSE <<"name">>]

\* The five names the decision prompt offers
KnownTools ==
    {"get_latest_news", "get_college_notifications", "query_knowledge_base",
     "get_professor_details", "none"}

\* needle in hay, for two strings: the pairs of strings of this model where
\* the one is a proper substring of the other
SubstringPairs == {<<"name", "the name is Rao">>}
InStr(needle, hay) == needle = hay \/ <<needle, hay>> \in SubstringPairs

\* ArgPresent with the test of the value left out: arg in tool_args alone
ArgPresentKeyOnly(tool_args, arg) ==
    IF tool_args.k = "dict"
    THEN IF HasKey(tool_args, arg) THEN "true" ELSE "false"
    ELSE "TypeError"

\* arg in tool_args and tool_args[arg], for one required argument:
\* "true", "false", or the exception the evaluation raises
ArgPresent(tool_args, arg) ==
    CASE tool_args.k = "dict" ->
            IF HasKey(tool_args, arg) /\ Truthy(Lookup(tool_args, arg))
            THEN "true" ELSE "false"
      [] tool_args.k = "list" ->
            \* a list holding the name: list indices must be integers
            IF \E i \in 1..Len(tool_args.items) :
                  tool_args.items[i].k = "str" /\ tool_args.items[i].s = arg
            THEN "TypeError" ELSE "false"
      [] tool_args.k = "str" ->
            \* substring test, then string indices must be integers
            IF InStr(arg, tool_args.s) THEN "TypeError" ELSE "false"
      [] OTHER -> "TypeError"   \* None or a number is not iterable

\* all(arg in tool_args and tool_args[arg] for arg in required_args)
RECURSIVE AllPresent(_, _)
AllPresent(tool_args, required_args) ==
    IF required_args = <<>> THEN "true"
    ELSE LET r == ArgPresent(tool_args, Head(required_args)) IN
         IF r = "true" THEN AllPresent(tool_args, Tail(required_args)) ELSE r

\* self.tool_arg_map.get(tool_name): <<>> stands for None
RequiredArgs(tool_name) ==
    IF tool_name.k = "str" /\ tool_name.s \in DOMAIN tool_arg_map
    THEN tool_arg_map[tool_name.s] ELSE <<>>

\* Lines 232-233: "passed", "rejected", or "TypeError" (raised by the lookup
\* of an unhashable tool name or by the test of the arguments)
Validate(tool_name, tool_args) ==
    IF tool_name.k \in {"list", "dict"} THEN "TypeError"
    ELSE LET required_args == RequiredArgs(tool_name) IN
         IF required_args = <<>> THEN "passed"
         ELSE LET r == AllPresent(tool_args, required_args) IN
              IF r = "true" THEN "passed"
              ELSE IF r = "false" THEN "rejected" ELSE r

\* NoToolSelected with the test for the tool none left out
NoToolSelectedOnlyNone(tool_call) == tool_call = None

\* Line 224: not tool_call or tool_call.get('tool') == 'none'
NoToolSelected(tool_call) ==
    \/ tool_call = None
    \/ LET tool == Lookup(tool_call, "tool") IN tool.k = "str" /\ tool.s = "none"

\* ValidationFailureMessage with the message left out of the call
ValidationFailureMessageOmitted(tool_name) == <<>>

\* Line 235: the error_message of the fallback after a failed validation
ValidationFailureMessage(tool_name) ==
    <<W("Tool selection failed due to missing arguments for"), W(tool_name.s)>>

----------------------------------------------------------------------------
(* Result classification (chat_with_mistral, step 4) *)

\* The strings of this model whose lower case holds "not found"
NotFoundStrings == {"Professor Rao not found."}

\* Classify with the branch for the empty list left out
ClassifyWithoutEmptyList(raw_data) ==
    LET parsed == JsonLoads(raw_data) IN
    IF ~parsed.ok THEN "not_error"
    ELSE LET data_json == parsed.val IN
         IF data_json.k = "dict"
         THEN IF HasKey(data_json, "error") /\ Lookup(data_json, "error").k # "str"
              THEN "AttributeError"
              ELSE IF HasKey(data_json, "error") THEN "is_error" ELSE "not_error"
         ELSE "not_error"

\* Classify that takes a mapping for an error only when the content of its
\* error field is not empty
ClassifyNonEmptyErrorOnly(raw_data) ==
    LET parsed == JsonLoads(raw_data) IN
    IF ~parsed.ok THEN "not_error"
    ELSE LET data_json == parsed.val IN
         IF data_json.k = "dict"
         THEN IF HasKey(data_json, "error") /\ Lookup(data_json, "error").k # "str"
              THEN "AttributeError"
              ELSE IF HasKey(data_json, "error")
                      /\ Lookup(data_json, "error").s # ""
                   THEN "is_error" ELSE "not_error"
         ELSE IF data_json.k = "list" /\ Len(data_json.items) = 0
              THEN "is_error"
         ELSE "not_error"

\* Lines 246-259: "is_error", "not_error", or "AttributeError" (.lower() of
\* an error value that is no string)
Classify(raw_data) ==
    LET parsed == JsonLoads(raw_data) IN
    IF ~parsed.ok THEN "not_error"            \* except json.JSONDecodeError
    ELSE LET data_json == parsed.val IN
         IF data_json.k = "dict"
         THEN IF HasKey(data_json, "error") /\ Lookup(data_json, "error").k # "str"
              THEN "AttributeError"
              ELSE LET error_message ==
                           IF HasKey(data_json, "error")
                           THEN Lookup(data_json, "error").s ELSE ""
                   IN IF HasKey(data_json, "error")
                         \/ error_message \in NotFoundStrings
                      THEN "is_error" ELSE "not_error"
         ELSE IF data_json.k = "list" /\ Len(data_json.items) = 0
              THEN "is_error"
         ELSE "not_error"

\* ErrorResultMessage with the payload left out of the call
ErrorResultMessageOmitted(raw_data) == <<>>

\* Line 266: the error_message of the fallback after an error result
ErrorResultMessage(raw_data) == raw_data

\* Line 152: if error_message
RefusalBranch(error_message) == error_message # <<>>

\* Line 275: the data of the prompt built by the except branch
FailureData(e) == <<W("Tool execution failed:"), e>>

----------------------------------------------------------------------------
(* Bounds and inputs *)

\* Turns (user messages handed to chat_with_mistral) of one run
MaxTurns == 2
\* Chunks one streamed response yields
MaxChunks == 1

\* What the user types
UserMessages == {<<W("hey, how is it going")>>, <<W("Who is Professor Rao?")>>}

\* {"tool": tool, "arguments": args}
Decision(tool, args) ==
    <<LB, S("tool"), CL, tool, CM, WS, S("arguments"), CL, WS>> \o args \o <<RB>>

Rao == Decision(S("get_professor_details"), <<LB, S("name"), CL, S("Rao"), RB>>)

\* Completions of the tool-selection call
DecisionTexts ==
    { Decision(S("none"), <<LB, RB>>),
      Rao,
      Decision(S("get_professor_details"), <<LB, RB>>),
      Decision(S("get_professor_details"), <<LB, S("name"), CL, S(""), RB>>),
      Decision(S("get_professor_details"), <<LB, S("name"), CL, S(" "), RB>>),
      Decision(S("get_professor_details"), <<LB, S("name"), CL, NUL, RB>>),
      Decision(S("get_professor_details"), <<LB, S("query_text"), CL, S("Rao"), RB>>),
      Decision(S("get_professor_details"), <<NUL>>),
      Decision(S("get_professor_details"), <<LK, S("name"), RK>>),
      Decision(S("get_professor_details"), <<LK, RK>>),
      Decision(S("get_professor_details"), <<S("the name is Rao")>>),
      Decision(S("get_professor_details"), <<S("Rao")>>),
      Decision(S("get_professor_details"), <<N("5")>>),
      Decision(S("query_knowledge_base"), <<LB, S("query_text"), CL, S("exam rules"), RB>>),
      Decision(S("query_knowledge_base"), <<LB, S("query_text"), CL, S(""), RB>>),
      Decision(S("query_knowledge_base"), <<LB, S("name"), CL, S("Rao"), RB>>),
      Decision(S("get_latest_news"), <<LB, RB>>),
      Decision(S("get_college_notifications"), <<LB, RB>>),
      Decision(S("get_weather"), <<LB, RB>>),
      Decision(N("5"), <<LB, RB>>),
      Decision(NUL, <<LB, RB>>),
      <<LB, S("tool"), CL, LK, S("none"), RK, CM, S("arguments"), CL, LB, RB, RB>>,
      <<LB, S("tool"), CL, S("get_latest_news"), RB>>,
      <<LB, S("tool"), CL, S("none")>>,
      <<W("I would just chat here.")>>,
      <<>>,
      <<FenceJson, WS>> \o Rao \o <<WS, Fence>>,
      <<W("Sure, here it is:"), WS>> \o Rao \o <<WS, W("Hope that helps.")>>,
      <<W("The format is"), WS, LB, RB, WS>> \o Rao }

\* Texts a tool call returns (result.content[0].text)
PayloadTexts ==
    { <<LB, S("name"), CL, S("Dr. Rao"), CM, S("dept"), CL, S("CSE"), RB>>,
      <<LB, S("error"), CL, S("Professor Rao not found."), RB>>,
      <<LB, S("error"), CL, S("Ambiguous query. Multiple professors found."), CM,
        S("matches"), CL, LK, S("Dr. Rao"), CM, S("Dr. Raoul"), RK, RB>>,
      <<LB, S("error"), CL, S(""), RB>>,
      <<LB, S("error"), CL, N("404"), RB>>,
      <<LB, S("error"), CL, NUL, RB>>,
      <<LB, S("error"), CL, LK, S("timeout"), RK, RB>>,
      <<LB, S("error"), CL, LB, S("code"), CL, N("500"), RB, RB>>,
      <<LB, RB>>,
      <<LK, RK>>,
      <<LK, WS, RK>>,
      <<LK, S("Exams are held in May."), CM, S("Rules of conduct"), RK>>,
      <<S("No news today")>>,
      <<NUL>>,
      <<W("Unknown tool: get_weather")>>,
      <<W("<html>Service unavailable</html>")>>,
      <<LK, S("Exams are held in May.")>>,
      <<>> }

\* Messages of the exceptions the collaborators raise
EConnection == W("Connection closed")
ENotConnected == W("Not connected to server")
EOllama == W("Failed to connect to Ollama")
EAttribute == W("object has no attribute lower")
ETypeError == W("TypeError in argument validation")
EEndOfInput == W("EOF when reading a line")

----------------------------------------------------------------------------
(* State *)

VARIABLES
    pc,               \* where main is: connect, input, select, invoke,
                      \* generate, fallback, turn_done, finally, closed
    exit,             \* how the try block of main was left
    ENABLE_STREAMING, \* config.ENABLE_STREAMING
    session,          \* self.session is set
    client_context,   \* self.client_context: None, created, entered, exited
    session_context,  \* self.session_context: None, created, entered, exited
    closes,           \* calls of close()
    turns,            \* turns started
    user_message,     \* the argument of chat_with_mistral
    decision_response,
                      \* the text the tool-selection call returned
    tool_call,        \* what _extract_tool_call returned
    raw_data,         \* what process_tool_call returned
    caller,           \* the call site generate_response was reached from
    prompt,           \* the prompt generate_response was called with
    \* the history of the current turn
    backend,          \* calls of ollama.generate: [kind, query, data, stream]
    renders,          \* render branches entered:
                      \* [kind, query, data, error_message]
    invocations,      \* calls of process_tool_call: [tool, args]
    validation,       \* none, passed, rejected, TypeError
    classified,       \* none, is_error, not_error, AttributeError
    invoke_raised,    \* process_tool_call raised
    raised,           \* messages of the exceptions raised
    printed           \* what was printed

vars == <<pc, exit, ENABLE_STREAMING, session, client_context, session_context,
          closes, turns, user_message, decision_response, tool_call, raw_data,
          caller, prompt, backend, renders, invocations, validation, classified, invoke_raised,
          raised, printed>>

lifecycle == <<ENABLE_STREAMING, session, client_context, session_context,
               closes, turns>>

\* Before the tool-selection call of a turn has returned
Unset == <<Tok("unset", "")>>

Prompt(kind, query, data) == [kind |-> kind, query |-> query, data |-> data]
\* A render branch entered: a prompt and, for _handle_chat_fallback, the
\* error_message it was called with
Render(kind, query, data, error_message) ==
    [kind |-> kind, query |-> query, data |-> data,
     error_message |-> error_message]
NoPrompt == Prompt("none", <<>>, <<>>)
BackendCall(p, stream) ==
    [kind |-> p.kind, query |-> p.query, data |-> p.data, stream |-> stream]

Init ==
    /\ pc = "connect"
    /\ exit = "none"
    /\ ENABLE_STREAMING \in BOOLEAN
    /\ session = FALSE
    /\ client_context = "None"
    /\ session_context = "None"
    /\ closes = 0
    /\ turns = 0
    /\ user_message = <<>>
    /\ decision_response = Unset
    /\ tool_call = None
    /\ raw_data = <<>>
    /\ caller = "none"
    /\ prompt = NoPrompt
    /\ backend = <<>>
    /\ renders = <<>>
    /\ invocations = <<>>
    /\ validation = "none"
    /\ classified = "none"
    /\ invoke_raised = FALSE
    /\ raised = <<>>
    /\ printed = <<>>

----------------------------------------------------------------------------
(* Rendering: each of these sets renders, prompt, caller, pc and printed.   *)
(* who is the call site: "chat" outside the try block of chat_with_mistral, *)
(* "try" inside it, "except" in its except branch.  pr is what has been     *)
(* printed so far.                                                          *)

\* make_natural_response(user_query, raw_data), up to its call of
\* generate_response
MakeNaturalResponse(data, who, pr) ==
    /\ renders' = Append(renders, Render("grounded", user_message, data, <<>>))
    /\ prompt' = Prompt("grounded", user_message, data)
    /\ caller' = who
    /\ pc' = "generate"
    /\ printed' = pr

\* _handle_chat_fallback(user_message, error_message): the static refusal,
\* or the chat prompt up to its call of generate_response
HandleChatFallback(error_message, who, pr) ==
    IF RefusalBranch(error_message)
    THEN /\ renders' = Append(renders, Render("refusal", <<>>, <<>>, error_message))
         /\ printed' = Append(pr, "refusal")
         /\ prompt' = NoPrompt
         /\ caller' = "none"
         /\ pc' = "turn_done"
    ELSE /\ renders' = Append(renders,
                              Render("chat", user_message, <<>>, error_message))
         /\ prompt' = Prompt("chat", user_message, <<>>)
         /\ caller' = who
         /\ pc' = "generate"
         /\ printed' = pr

\* The except branch of chat_with_mistral, for the exception e
ExceptBranch(e, pr) ==
    MakeNaturalResponse(FailureData(e), "except", Append(pr, "oops"))

\* An exception of chat_with_mistral reported and contained by the turn: the
\* loop goes on
PropagateContained(pr) ==
    /\ pc' = "turn_done"
    /\ caller' = "none"
    /\ prompt' = NoPrompt
    /\ printed' = Append(pr, "fatal")
    /\ UNCHANGED <<renders, exit>>

\* An exception leaves chat_with_mistral: main reports it and goes to finally
Propagate(pr) ==
    /\ exit' = "error"
    /\ pc' = "finally"
    /\ caller' = "none"
    /\ prompt' = NoPrompt
    /\ printed' = Append(pr, "fatal")
    /\ UNCHANGED renders

----------------------------------------------------------------------------
(* main: connection and the turn loop *)

Connect ==
    /\ pc = "connect"
    /\ \E stage \in {"ok", "spawn", "session", "initialize"} :
          /\ client_context' = IF stage = "spawn" THEN "created" ELSE "entered"
          /\ session_context' =
                CASE stage = "spawn" -> "None"
                  [] stage = "session" -> "created"
                  [] OTHER -> "entered"
          /\ session' = (stage \in {"ok", "initialize"})
          /\ IF stage = "ok"
             THEN /\ pc' = "input"
                  /\ UNCHANGED <<exit, raised, printed>>
             ELSE /\ pc' = "finally"
                  /\ exit' = "error"
                  /\ raised' = Append(raised, EConnection)
                  /\ printed' = Append(printed, "fatal")
    /\ UNCHANGED <<ENABLE_STREAMING, closes, turns, user_message,
                   decision_response, tool_call, raw_data, caller, prompt,
                   backend, renders, invocations, validation, classified,
                   invoke_raised>>

\* input() returns a message: the turn starts
ReadMessage ==
    /\ pc = "input"
    /\ turns < MaxTurns
    /\ \E m \in UserMessages : user_message' = m
    /\ turns' = turns + 1
    /\ pc' = "select"
    /\ decision_response' = Unset
    /\ tool_call' = None
    /\ raw_data' = <<>>
    /\ backend' = <<>>
    /\ renders' = <<>>
    /\ invocations' = <<>>
    /\ validation' = "none"
    /\ classified' = "none"
    /\ invoke_raised' = FALSE
    /\ raised' = <<>>
    /\ printed' = <<>>
    /\ UNCHANGED <<exit, ENABLE_STREAMING, session, client_context,
                   session_context, closes, caller, prompt>>

\* input() returns an empty line: continue
ReadEmpty ==
    /\ pc = "input"
    /\ UNCHANGED vars

\* input() returns quit, exit, bye or goodbye; or is interrupted; or raises
LeaveLoop ==
    /\ pc = "input"
    /\ \E how \in {"quit", "interrupt", "error"} :
          /\ exit' = how
          /\ printed' = Append(printed, IF how = "error" THEN "fatal" ELSE "goodbye")
          /\ raised' = IF how = "error" THEN Append(raised, EEndOfInput) ELSE raised
    /\ pc' = "finally"
    /\ UNCHANGED <<ENABLE_STREAMING, session, client_context, session_context,
                   closes, turns, user_message, decision_response, tool_call,
                   raw_data, caller, prompt, backend, renders, invocations,
                   validation, classified, invoke_raised>>

\* The loop that calls chat_with_mistral again for the message it has just
\* answered, without reading the next one
EndTurnRetry ==
    /\ pc = "turn_done"
    /\ pc' = "select"
    /\ printed' = Append(printed, "separator")
    /\ UNCHANGED <<exit, lifecycle, user_message, decision_response,
                   tool_call, raw_data, caller, prompt, backend, renders,
                   invocations, validation, classified, invoke_raised,
                   raised>>

\* chat_with_mistral returned: main prints the separator and loops
EndTurn ==
    /\ pc = "turn_done"
    /\ pc' = "input"
    /\ printed' = Append(printed, "separator")
    /\ UNCHANGED <<exit, lifecycle, user_message, decision_response,
                   tool_call, raw_data, caller, prompt, backend, renders,
                   invocations, validation, classified, invoke_raised,
                   raised>>

\* close() with the exit of the transport context left out
CloseSessionOnly ==
    /\ pc = "finally"
    /\ closes' = closes + 1
    /\ session_context' = IF session_context # "None" THEN "exited" ELSE "None"
    /\ pc' = "closed"
    /\ UNCHANGED <<exit, ENABLE_STREAMING, session, client_context, turns,
                   user_message, decision_response, tool_call, raw_data,
                   caller, prompt, backend, renders, invocations, validation,
                   classified, invoke_raised, raised, printed>>

\* finally: await client.close()
Close ==
    /\ pc = "finally"
    /\ closes' = closes + 1
    /\ session_context' = IF session_context # "None" THEN "exited" ELSE "None"
    /\ client_context' = IF client_context # "None" THEN "exited" ELSE "None"
    /\ pc' = "closed"
    /\ UNCHANGED <<exit, ENABLE_STREAMING, session, turns, user_message,
                   decision_response, tool_call, raw_data, caller, prompt,
                   backend, renders, invocations, validation, classified,
                   invoke_raised, raised, printed>>

----------------------------------------------------------------------------
(* chat_with_mistral *)

ToolName == Lookup(tool_call, "tool")
ToolArgs == Lookup(tool_call, "arguments")

SelectPrompt == Prompt("select", user_message, <<>>)

\* Lines 211-219: the tool-selection call raises
SelectRaises ==
    /\ pc = "select"
    /\ backend' = Append(backend, BackendCall(SelectPrompt, FALSE))
    /\ raised' = Append(raised, EOllama)
    /\ Propagate(printed)
    /\ UNCHANGED <<lifecycle, user_message, decision_response, tool_call,
                   raw_data, invocations, validation, classified,
                   invoke_raised>>

\* Lines 211-236: the tool-selection call returns the text d; extraction,
\* the test for no tool, validation
SelectTool ==
    /\ pc = "select"
    /\ backend' = Append(backend, BackendCall(SelectPrompt, FALSE))
    /\ \E d \in DecisionTexts :
          LET tc == ExtractToolCall(d) IN
          /\ decision_response' = d
          /\ tool_call' = tc
          /\ IF NoToolSelected(tc)
             THEN /\ HandleChatFallback(<<>>, "chat", printed)
                  /\ UNCHANGED <<validation, raised, exit>>
             ELSE LET tool_name == Lookup(tc, "tool")
                      v == Validate(tool_name, Lookup(tc, "arguments"))
                  IN /\ validation' = v
                     /\ CASE v = "rejected" ->
                               /\ HandleChatFallback(
                                     ValidationFailureMessage(tool_name), "chat",
                                     Append(printed, "warning"))
                               /\ UNCHANGED <<raised, exit>>
                          [] v = "passed" ->
                               /\ pc' = "invoke"
                               /\ UNCHANGED <<renders, prompt, caller,
                                              printed, raised, exit>>
                          [] OTHER ->
                               /\ raised' = Append(raised, ETypeError)
                               /\ Propagate(printed)
    /\ UNCHANGED <<lifecycle, user_message, raw_data, invocations, classified,
                   invoke_raised>>

\* Lines 239-275: process_tool_call raises: the except branch
InvokeRaises ==
    /\ pc = "invoke"
    /\ invocations' = Append(invocations, [tool |-> ToolName, args |-> ToolArgs])
    /\ invoke_raised' = TRUE
    /\ LET e == IF session THEN EConnection ELSE ENotConnected IN
          /\ raised' = Append(raised, e)
          /\ ExceptBranch(e, Append(printed, "searching"))
    /\ UNCHANGED <<exit, lifecycle, user_message, decision_response,
                   tool_call, raw_data, backend, validation, classified>>

\* Lines 239-275: process_tool_call returns the text payload; classification
\* and the choice of the render
InvokeTool ==
    /\ pc = "invoke"
    /\ session
    /\ invocations' = Append(invocations, [tool |-> ToolName, args |-> ToolArgs])
    /\ \E payload \in PayloadTexts :
          LET c == Classify(payload) IN
          /\ raw_data' = payload
          /\ classified' = c
          /\ CASE c = "is_error" ->
                    /\ HandleChatFallback(ErrorResultMessage(payload), "try",
                                          Append(printed, "no_result"))
                    /\ UNCHANGED raised
               [] c = "not_error" ->
                    /\ MakeNaturalResponse(payload, "try", printed)
                    /\ UNCHANGED raised
               [] OTHER ->
                    /\ raised' = Append(raised, EAttribute)
                    /\ ExceptBranch(EAttribute, printed)
    /\ UNCHANGED <<exit, lifecycle, user_message, decision_response,
                   tool_call, backend, validation, invoke_raised>>

----------------------------------------------------------------------------
(* generate_response *)

Chunks(k) == [i \in 1..k |-> "chunk"]

\* generate_response returns to chat_with_mistral, which returns to main
Return(pr) ==
    /\ pc' = "turn_done"
    /\ caller' = "none"
    /\ prompt' = NoPrompt
    /\ printed' = pr
    /\ UNCHANGED <<renders, exit>>

\* generate_response raises e: inside the try block of chat_with_mistral the
\* except branch catches it, elsewhere it leaves the turn
RaiseFromGenerate(e, pr) ==
    IF caller = "try"
    THEN ExceptBranch(e, pr) /\ UNCHANGED exit
    ELSE Propagate(pr)

\* Lines 72-88: the streaming call yields its chunks
GenerateStream ==
    /\ pc = "generate"
    /\ ENABLE_STREAMING
    /\ backend' = Append(backend, BackendCall(prompt, TRUE))
    /\ \E k \in 0..MaxChunks : Return(printed \o Chunks(k) \o <<"newline">>)
    /\ UNCHANGED <<lifecycle, user_message, decision_response, tool_call,
                   raw_data, invocations, validation, classified,
                   invoke_raised, raised>>

\* Lines 72-93: the streaming call, or its iteration after k chunks, raises
GenerateStreamFails ==
    /\ pc = "generate"
    /\ ENABLE_STREAMING
    /\ backend' = Append(backend, BackendCall(prompt, TRUE))
    /\ \E k \in 0..MaxChunks :
          printed' = printed \o Chunks(k) \o <<"stream_error", "falling_back">>
    /\ raised' = Append(raised, EOllama)
    /\ pc' = "fallback"
    /\ UNCHANGED <<exit, lifecycle, user_message, decision_response,
                   tool_call, raw_data, caller, prompt, renders, invocations,
                   validation, classified, invoke_raised>>

\* Lines 94-103: the non-streaming call of the fallback returns
FallbackReturns ==
    /\ pc = "fallback"
    /\ backend' = Append(backend, BackendCall(prompt, FALSE))
    /\ Return(Append(printed, "response"))
    /\ UNCHANGED <<lifecycle, user_message, decision_response, tool_call,
                   raw_data, invocations, validation, classified,
                   invoke_raised, raised>>

\* A fallback that swallows the exception of its non-streaming call and
\* returns
FallbackSwallows ==
    /\ pc = "fallback"
    /\ backend' = Append(backend, BackendCall(prompt, FALSE))
    /\ raised' = Append(raised, EOllama)
    /\ Return(printed)
    /\ UNCHANGED <<lifecycle, user_message, decision_response, tool_call,
                   raw_data, invocations, validation, classified,
                   invoke_raised>>

\* Lines 94-102: the non-streaming call of the fallback raises
FallbackRaises ==
    /\ pc = "fallback"
    /\ backend' = Append(backend, BackendCall(prompt, FALSE))
    /\ raised' = Append(raised, EOllama)
    /\ RaiseFromGenerate(EOllama, printed)
    /\ UNCHANGED <<lifecycle, user_message, decision_response, tool_call,
                   raw_data, invocations, validation, classified,
                   invoke_raised>>

\* Lines 104-115: streaming disabled, the call returns
GeneratePlain ==
    /\ pc = "generate"
    /\ ~ENABLE_STREAMING
    /\ backend' = Append(backend, BackendCall(prompt, FALSE))
    /\ Return(Append(printed, "response"))
    /\ UNCHANGED <<lifecycle, user_message, decision_response, tool_call,
                   raw_data, invocations, validation, classified,
                   invoke_raised, raised>>

\* Lines 104-114: streaming disabled, the call raises
GeneratePlainRaises ==
    /\ pc = "generate"
    /\ ~ENABLE_STREAMING
    /\ backend' = Append(backend, BackendCall(prompt, FALSE))
    /\ raised' = Append(raised, EOllama)
    /\ RaiseFromGenerate(EOllama, printed)
    /\ UNCHANGED <<lifecycle, user_message, decision_response, tool_call,
                   raw_data, invocations, validation, classified,
                   invoke_raised>>

----------------------------------------------------------------------------

Next ==
    \/ Connect
    \/ ReadMessage
    \/ ReadEmpty
    \/ LeaveLoop
    \/ EndTurn
    \/ Close
    \/ SelectRaises
    \/ SelectTool
    \/ InvokeRaises
    \/ InvokeTool
    \/ GenerateStream
    \/ GenerateStreamFails
    \/ FallbackReturns
    \/ FallbackRaises
    \/ GeneratePlain
    \/ GeneratePlainRaises

Spec == Init /\ [][Next]_vars

----------------------------------------------------------------------------
(* Properties.  The history variables hold the current turn from its start  *)
(* until the next turn starts, so a state predicate over them speaks of     *)
(* every turn.                                                              *)

NoneOfKind(seq, kind) == \A i \in DOMAIN seq : seq[i].kind # kind
Printed(what) == \E i \in DOMAIN printed : printed[i] = what

\* process_tool_call returned a payload in this turn
PayloadReturned == classified # "none"

\* The tool-selection call of this turn returned
Decided == decision_response # Unset

\* The decision is the tool none, or there is no decision
DecisionIsNone ==
    \/ tool_call = None
    \/ ToolName.k = "str" /\ ToolName.s = "none"

\* A tool other than none was selected
ToolSelected == Decided /\ ~DecisionIsNone

\* The outcome the result classifier is specified to give a payload:
\* unparsable, explicit error (a mapping whose error field is not empty),
\* empty result (an empty sequence), success
OutcomeOf(raw) ==
    LET parsed == JsonLoads(raw) IN
    IF ~parsed.ok THEN "UnparsablePayload"
    ELSE IF parsed.val.k = "dict" /\ HasKey(parsed.val, "error")
                                  /\ Truthy(Lookup(parsed.val, "error"))
         THEN "ExplicitError"
    ELSE IF parsed.val.k = "list" /\ Len(parsed.val.items) = 0
         THEN "EmptyResult"
    ELSE "Success"

\* The turn answered with the static refusal and nothing else: one render,
\* the refusal, and no call of the generation backend after tool selection
OnlyRefusal ==
    /\ Len(renders) = 1
    /\ renders[1].kind = "refusal"
    /\ Printed("refusal")
    /\ \A i \in DOMAIN backend : backend[i].kind = "select"
    /\ pc \notin {"generate", "fallback"}

\* C1: a grounded generation call (make_natural_response) is made if and
\* only if the payload the tool returned is classified Success; no grounded
\* call is made with an unparsable payload, an explicit error or an empty
\* sequence.
C1_GroundedIffSuccess ==
    /\ \A i \in DOMAIN renders :
          renders[i].kind = "grounded" =>
             /\ PayloadReturned
             /\ OutcomeOf(raw_data) = "Success"
             /\ renders[i].data = raw_data
    /\ (pc = "turn_done" /\ PayloadReturned /\ OutcomeOf(raw_data) = "Success")
          => \E i \in DOMAIN renders :
                renders[i].kind = "grounded" /\ renders[i].data = raw_data

\* C2: when process_tool_call raises, the turn renders the static refusal
\* and calls the generation backend no more after the tool-selection call.
C2_InvokeFailureRefused ==
    invoke_raised =>
       /\ \A i \in DOMAIN backend : backend[i].kind = "select"
       /\ \A i \in DOMAIN renders : renders[i].kind = "refusal"
       /\ (pc = "turn_done" => OnlyRefusal)

\* Failure content: the message of an exception raised in the turn, an error
\* payload a tool returned, the message of a failed validation
FailureContent(text) ==
    \/ \E i \in DOMAIN text : \E j \in DOMAIN raised : text[i] = raised[j]
    \/ /\ PayloadReturned
       /\ OutcomeOf(raw_data) \in {"ExplicitError", "EmptyResult"}
       /\ text = raw_data
    \/ /\ validation = "rejected"
       /\ text = <<W("Tool selection failed due to missing arguments for"),
                   W(ToolName.s)>>

\* C3: no prompt passed to the generation backend holds failure content.
C3_NoFailureContentInPrompt ==
    \A i \in DOMAIN backend :
       ~FailureContent(backend[i].data) /\ ~FailureContent(backend[i].query)

\* The required arguments of the tools of the registry
C4_Required(tool) ==
    IF tool = "query_knowledge_base" THEN {"query_text"}
    ELSE IF tool = "get_professor_details" THEN {"name"}
    ELSE {}

\* The decision names a tool of the registry
C4_Registered == ToolSelected /\ ToolName.k = "str" /\ C4_Required(ToolName.s) # {}

\* A decision for a tool of the registry whose arguments, a mapping, lack a
\* required key or map it to the empty string
C4_LacksRequired ==
    /\ C4_Registered
    /\ ToolArgs.k = "dict"
    /\ \E a \in C4_Required(ToolName.s) :
          \/ ~HasKey(ToolArgs, a)
          \/ Lookup(ToolArgs, a).k = "str" /\ Lookup(ToolArgs, a).s = ""

\* C4: a decision for a tool with required arguments that lacks a required
\* key, or maps it to the empty string, is rejected by validation and
\* process_tool_call is not called in that turn (nor is it called when the
\* arguments are no mapping); every call of process_tool_call comes after a
\* passed validation in the same turn.
C4_RequiredArgsValidated ==
    /\ C4_LacksRequired => validation = "rejected" /\ invocations = <<>>
    /\ (C4_Registered /\ ToolArgs.k # "dict") => invocations = <<>>
    /\ invocations # <<>> => validation = "passed"

\* A decision that maps the required name to the empty string was rejected
C4_Witness ==
    /\ pc = "turn_done"
    /\ C4_LacksRequired
    /\ HasKey(ToolArgs, "name")
    /\ validation = "rejected"

\* The tool returned a payload that parses as an empty sequence
EmptySequencePayload ==
    /\ PayloadReturned
    /\ LET parsed == JsonLoads(raw_data) IN
          parsed.ok /\ parsed.val.k = "list" /\ Len(parsed.val.items) = 0

\* C5: when the tool returns a payload that parses as an empty sequence, the
\* turn renders the static refusal and makes no generation call, grounded or
\* open chat, after the tool-selection call.
C5_EmptySequenceRefused == EmptySequencePayload => OnlyRefusal

C5_Witness == EmptySequencePayload /\ pc = "turn_done" /\ Len(invocations) = 1

\* C6: when argument validation fails, the static refusal is emitted and
\* neither an open-chat nor a grounded generation call is made in the turn.
C6_ValidationFailureRefused ==
    validation = "rejected" => OnlyRefusal /\ invocations = <<>>

C6_Witness ==
    /\ validation = "rejected"
    /\ pc = "turn_done"
    /\ ToolName.s = "query_knowledge_base"
    /\ Printed("warning")

\* A selected tool failed: validation failed, the invocation raised, or the
\* payload is an error, empty or unparsable
ToolFailed ==
    /\ ToolSelected
    /\ \/ validation = "rejected"
       \/ invoke_raised
       \/ PayloadReturned /\ OutcomeOf(raw_data) # "Success"

\* C7: in a turn where a selected tool failed, the open-chat generation call
\* is never made, and every call of _handle_chat_fallback carries an
\* error_message that is not empty.
C7_ToolFailedNeverOpenChat ==
    ToolFailed =>
       /\ NoneOfKind(renders, "chat")
       /\ NoneOfKind(backend, "chat")
       /\ prompt.kind # "chat"
       /\ \A i \in DOMAIN renders :
             renders[i].kind \in {"refusal", "chat"} =>
                renders[i].error_message # <<>>

\* A tool returned an error payload and the turn ended with the refusal
C7_Witness ==
    /\ ToolFailed
    /\ pc = "turn_done"
    /\ classified = "is_error"
    /\ OutcomeOf(raw_data) = "ExplicitError"
    /\ renders[1].error_message = raw_data

\* C8: when the decision is the tool none, or no decision was extracted, the
\* tool is not invoked, exactly one open-chat generation call is made, and
\* its prompt carries the user message and no retrieved data.
C8_NoToolOpenChat ==
    (Decided /\ DecisionIsNone) =>
       /\ invocations = <<>>
       /\ renders = <<Render("chat", user_message, <<>>, <<>>)>>
       /\ \A i \in DOMAIN backend :
             \/ i = 1 /\ backend[i].kind = "select"
             \/ /\ i > 1
                /\ backend[i].kind = "chat"
                /\ backend[i].query = user_message
                /\ backend[i].data = <<>>
       /\ (pc = "turn_done" => Len(backend) >= 2)

\* A turn whose decision was the tool none ended after its open-chat call
C8_Witness ==
    /\ Decided
    /\ tool_call # None
    /\ DecisionIsNone
    /\ pc = "turn_done"
    /\ Len(backend) = 2

\* C9: after the tool invocation raised in a turn, no step of that turn
\* leaves the turn loop of main, whatever the generation backend does.
C9_LoopSurvivesInvokeFailure ==
    [][(invoke_raised /\ pc \in {"generate", "fallback"}) => pc' # "finally"]_vars

\* C10: a turn that completes has entered exactly one render branch
\* (make_natural_response, open chat, static refusal), and entered it once.
C10_ExactlyOneRender == pc = "turn_done" => Len(renders) = 1

\* The run of main under its scheduling: once the try block of main is left,
\* the finally block runs close()
FairSpec == Spec /\ WF_vars(Close)

----------------------------------------------------------------------------
(* _extract_tool_call on its own: the texts are a decision object, or a     *)
(* broken one, between a prefix and a suffix of prose, fences and braces.   *)

NoneDecision == Decision(S("none"), <<LB, RB>>)

ExtractPrefixes ==
    { <<>>,
      <<W("Sure, here it is:"), WS>>,
      <<FenceJson, WS>>,
      <<WS, Fence, WS>>,
      <<W("The format is"), WS, LB, RB, WS>>,
      <<W("Close with"), WS, RB, WS>>,
      <<W("Open with"), WS, LB, WS>> }

ExtractSuffixes ==
    { <<>>,
      <<WS, W("Hope that helps.")>>,
      <<WS, Fence>>,
      <<WS, W("then"), WS, LB>>,
      <<WS, W("then"), WS, RB>>,
      <<WS, LB, S("note"), CL, S("done"), RB>> }

ExtractBodies ==
    { Rao,
      NoneDecision,
      Decision(S("get_latest_news"), <<LB, RB>>),
      <<LB, S("arguments"), CL, LB, RB, CM, S("tool"), CL, S("none"), RB>>,
      <<LB, S("tool"), CL, S("none")>>,
      <<LB, S("tool"), CL, S("none"), CM, S("arguments"), CL, LB, RB>>,
      <<LB, S("tool"), CL, S("get_latest_news"), RB>>,
      <<S("tool"), CL, S("none"), RB>>,
      <<W("none")>>,
      <<>> }

ExtractTexts ==
    {pre \o body \o post :
        pre \in ExtractPrefixes, body \in ExtractBodies, post \in ExtractSuffixes}

ExtractInit ==
    /\ pc = "extract"
    /\ exit = "none"
    /\ ENABLE_STREAMING \in BOOLEAN
    /\ session = FALSE
    /\ client_context = "None"
    /\ session_context = "None"
    /\ closes = 0
    /\ turns = 0
    /\ user_message = <<>>
    /\ decision_response = Unset
    /\ tool_call = None
    /\ raw_data = <<>>
    /\ caller = "none"
    /\ prompt = NoPrompt
    /\ backend = <<>>
    /\ renders = <<>>
    /\ invocations = <<>>
    /\ validation = "none"
    /\ classified = "none"
    /\ invoke_raised = FALSE
    /\ raised = <<>>
    /\ printed = <<>>

\* Line 221: tool_call = self._extract_tool_call(text)
ExtractCall ==
    /\ pc = "extract"
    /\ \E text \in ExtractTexts :
          /\ decision_response' = text
          /\ tool_call' = ExtractToolCall(text)
    /\ pc' = "extracted"
    /\ UNCHANGED <<exit, lifecycle, user_message, raw_data, caller, prompt,
                   backend, renders, invocations, validation, classified,
                   invoke_raised, raised, printed>>

ExtractSpec == ExtractInit /\ [][ExtractCall]_vars

\* The text _extract_tool_call scans: the decision text without its fences
Scanned == StripFences(decision_response)

\* A {"tool": ..., "arguments": {...}} object
IsDecisionObject(v) ==
    /\ v.k = "dict"
    /\ HasKey(v, "tool")
    /\ HasKey(v, "arguments")
    /\ Lookup(v, "arguments").k = "dict"

\* The places <<i, j>> of the text where a syntactically valid decision
\* object stands
ObjectPlaces(toks) ==
    {ij \in (1..Len(toks)) \X (1..Len(toks)) :
        /\ ij[1] <= ij[2]
        /\ toks[ij[1]].t = "lbrace"
        /\ toks[ij[2]].t = "rbrace"
        /\ LET parsed == JsonLoads(SubSeq(toks, ij[1], ij[2])) IN
              parsed.ok /\ IsDecisionObject(parsed.val)}

ObjectAt(toks, ij) == JsonLoads(SubSeq(toks, ij[1], ij[2])).val

\* The depth of braces after the text, -1 once a closing brace has no
\* opening one
RECURSIVE BraceDepth(_, _)
BraceDepth(toks, depth) ==
    IF depth < 0 \/ toks = <<>> THEN depth
    ELSE BraceDepth(Tail(toks),
                    CASE Head(toks).t = "lbrace" -> depth + 1
                      [] Head(toks).t = "rbrace" -> depth - 1
                      [] OTHER -> depth)

BracesAbsent(toks) ==
    \A i \in 1..Len(toks) : toks[i].t \notin {"lbrace", "rbrace"}
BracesUnbalanced(toks) == BraceDepth(toks, 0) # 0

\* C12 as stated: a valid decision object anywhere in the text, whatever the
\* prose and fences around it (braces in the prose included), is recovered;
\* a text with unbalanced or absent braces gives None.
C12_RecoversAnywhere ==
    pc = "extracted" =>
       /\ ObjectPlaces(Scanned) # {} =>
             \E ij \in ObjectPlaces(Scanned) : tool_call = ObjectAt(Scanned, ij)
       /\ (BracesAbsent(Scanned) \/ BracesUnbalanced(Scanned)) => tool_call = None

\* C12 amended: a valid decision object is recovered when no opening brace
\* stands before it and no closing brace after it; a text without an opening
\* brace, or without a closing brace after the first opening one, gives None;
\* whatever is returned is the object from the first opening brace to the
\* last closing brace.
C12_RecoversOutermost ==
    pc = "extracted" =>
       /\ \A ij \in ObjectPlaces(Scanned) :
             (/\ \A i \in 1..(ij[1] - 1) : Scanned[i].t # "lbrace"
              /\ \A j \in (ij[2] + 1)..Len(Scanned) : Scanned[j].t # "rbrace")
             => tool_call = ObjectAt(Scanned, ij)
       /\ (~\E i, j \in 1..Len(Scanned) :
              i < j /\ Scanned[i].t = "lbrace" /\ Scanned[j].t = "rbrace")
             => tool_call = None
       /\ tool_call # None =>
             \E i, j \in 1..Len(Scanned) :
                /\ \A k \in 1..Len(Scanned) :
                      /\ Scanned[k].t = "lbrace" => i <= k
                      /\ Scanned[k].t = "rbrace" => k <= j
                /\ JsonLoads(SubSeq(Scanned, i, j)).ok
                /\ tool_call = JsonLoads(SubSeq(Scanned, i, j)).val

\* A decision object was recovered from between prose and fences, with an
\* opening brace after it
C12_Witness ==
    /\ pc = "extracted"
    /\ tool_call # None
    /\ IsDecisionObject(tool_call)
    /\ BracesUnbalanced(Scanned)
    /\ Len(Scanned) < Len(decision_response)

----------------------------------------------------------------------------
(* Properties of the decision, the validation and the classification *)

\* C13: _extract_tool_call returns a decision only when tool is a string and
\* arguments a mapping; a decision of any other shape is no decision, and
\* never raises out of the turn.
C13_OnlyWellFormedDecisions ==
    /\ (Decided /\ tool_call # None) =>
          ToolName.k = "str" /\ ToolArgs.k = "dict"
    /\ validation # "TypeError"

\* The decision names a tool that is none of the five known names
UnknownToolSelected ==
    /\ ToolSelected
    /\ ToolName.k = "str"
    /\ ToolName.s \notin KnownTools

\* C14: a decision naming an unknown tool fails validation, and
\* process_tool_call is never called with an unknown tool name.
C14_UnknownToolRejected ==
    UnknownToolSelected => validation = "rejected" /\ invocations = <<>>

\* The strings of this model that hold whitespace only
BlankStrings == {" "}

\* A required argument of a tool of the registry is a blank string
BlankRequiredArgument ==
    /\ C4_Registered
    /\ ToolArgs.k = "dict"
    /\ \E a \in C4_Required(ToolName.s) :
          /\ HasKey(ToolArgs, a)
          /\ Lookup(ToolArgs, a).k = "str"
          /\ Lookup(ToolArgs, a).s \in BlankStrings

\* C15: a required argument that is blank fails validation like a missing
\* or empty one, and the tool is not invoked.
C15_BlankArgumentRejected ==
    BlankRequiredArgument => validation = "rejected" /\ invocations = <<>>

\* C16: a payload that parses as a mapping with an error field that is not
\* empty, of any JSON type, or as an empty sequence, never leads to a
\* grounded rendering.
C16_ErrorPayloadNeverGrounded ==
    (PayloadReturned /\ OutcomeOf(raw_data) \in {"ExplicitError", "EmptyResult"})
       => /\ classified = "is_error"
          /\ NoneOfKind(renders, "grounded")

\* The payload of the turn parsed, as this value
ParsedPayload == JsonLoads(raw_data).val
PayloadParsed == PayloadReturned /\ JsonLoads(raw_data).ok

\* The turn entered the grounded render with the raw text of the payload
GroundedWithPayload ==
    \E i \in DOMAIN renders :
       renders[i].kind = "grounded" /\ renders[i].data = raw_data

\* C17 as stated: a mapping is an explicit error only when its error key has
\* content that is not empty; a mapping whose error key is empty, a mapping
\* without the key and a sequence that is not empty are Success and rendered
\* as grounded answers.
C17_ErrorOnlyWhenNonEmpty ==
    PayloadParsed =>
       /\ (ParsedPayload.k = "dict" /\ classified = "is_error") =>
             HasKey(ParsedPayload, "error") /\ Truthy(Lookup(ParsedPayload, "error"))
       /\ OutcomeOf(raw_data) = "Success" =>
             classified = "not_error" /\ GroundedWithPayload

\* C17 amended: a mapping is an error whenever it has an error key whose
\* value is a string, empty or not; a mapping without the key and a sequence
\* that is not empty are Success and rendered as grounded answers with the
\* raw text of the payload.
C17_ErrorWheneverKeyPresent ==
    PayloadParsed =>
       /\ (/\ ParsedPayload.k = "dict"
           /\ HasKey(ParsedPayload, "error")
           /\ Lookup(ParsedPayload, "error").k = "str")
             => classified = "is_error" /\ OnlyRefusal
       /\ (\/ ParsedPayload.k = "dict" /\ ~HasKey(ParsedPayload, "error")
           \/ ParsedPayload.k = "list" /\ Len(ParsedPayload.items) > 0)
             => classified = "not_error" /\ GroundedWithPayload

\* A mapping whose error key is the empty string was refused
C17_Witness ==
    /\ PayloadParsed
    /\ ParsedPayload.k = "dict"
    /\ HasKey(ParsedPayload, "error")
    /\ Lookup(ParsedPayload, "error").k = "str"
    /\ Lookup(ParsedPayload, "error").s = ""
    /\ pc = "turn_done"
    /\ classified = "is_error"

----------------------------------------------------------------------------
(* The order of the steps of one turn *)

SelectCalls == {i \in DOMAIN backend : backend[i].kind = "select"}

\* What holds of the history of the turn at every position
C18_TurnState ==
    /\ pc = "select" =>
          backend = <<>> /\ invocations = <<>> /\ renders = <<>> /\ ~Decided
    /\ (turns >= 1 /\ pc # "select") =>
          Cardinality(SelectCalls) = 1 /\ backend[1].kind = "select"
    /\ Len(invocations) <= 1
    /\ invocations # <<>> => Decided /\ validation = "passed"
    /\ classified # "none" => Len(invocations) = 1
    /\ renders # <<>> => Decided
    /\ (renders # <<>> /\ validation = "passed") => Len(invocations) = 1
    /\ pc = "turn_done" => renders # <<>> /\ prompt = NoPrompt

\* What holds of every step: the selection call is the first of the turn,
\* the invocation follows the validation and precedes classification and
\* render, and a turn starts from input() only, which is reached only when
\* the turn before has returned
C18_TurnStep ==
    /\ (backend' # backend /\ backend' # <<>>
           /\ backend'[Len(backend')].kind = "select")
          => pc = "select" /\ backend = <<>>
    /\ (invocations' # invocations /\ invocations' # <<>>)
          => /\ Decided /\ validation = "passed"
             /\ classified = "none" /\ renders = <<>>
    /\ (classified' # classified /\ classified' # "none")
          => renders = <<>> /\ Len(invocations') = 1
    /\ (renders' # renders /\ renders' # <<>>)
          => Decided' /\ (validation' = "passed" => Len(invocations') = 1)
    /\ (pc' = "select" /\ pc # "select") => pc = "input"
    /\ (pc' = "input" /\ pc # "input") => pc \in {"connect", "turn_done"}
    /\ (pc \in {"select", "invoke", "generate", "fallback"})
          => turns' = turns /\ user_message' = user_message

\* C18: each turn makes exactly one tool-selection call and at most one tool
\* invocation, in the order decision, validate, invoke, classify, render;
\* the tool-selection call of the next turn does not start until the render
\* of this turn has completed or the turn has raised.
C18_OneSelectionInOrder == [](C18_TurnState) /\ [][C18_TurnStep]_vars

\* The second turn has invoked its tool once and completed its render
C18_Witness ==
    /\ turns = 2
    /\ pc = "turn_done"
    /\ Cardinality(SelectCalls) = 1
    /\ Len(invocations) = 1
    /\ classified = "not_error"
    /\ Len(backend) >= 2

----------------------------------------------------------------------------
(* Exceptions raised outside the try block of chat_with_mistral *)

\* This step raises outside the try block: in the tool-selection call or in
\* the validation (both at pc = "select"), or in the last backend call of
\* generate_response called for the open chat
RaisesOutsideTry ==
    /\ Len(raised') > Len(raised)
    /\ \/ pc = "select"
       \/ /\ caller = "chat"
          /\ \/ pc = "fallback"
             \/ pc = "generate" /\ ~ENABLE_STREAMING

\* An exception of this turn has left chat_with_mistral
TurnRaisedOut ==
    /\ exit = "error"
    /\ turns >= 1
    /\ raised # <<>>
    /\ raised[Len(raised)] \in {EOllama, ETypeError}

\* C19: an exception raised in a turn outside the try block of the tool
\* invocation (tool-selection call, validation of a malformed arguments
\* value, open-chat generation call) is not contained: it leaves
\* chat_with_mistral, the loop of main processes no further message, and
\* close() still runs.
C19_UncontainedException ==
    /\ [][RaisesOutsideTry =>
             /\ pc' = "finally"
             /\ exit' = "error"
             /\ renders' = renders
             /\ Printed("fatal")']_vars
    /\ [](TurnRaisedOut => pc \in {"finally", "closed"})
    /\ [][TurnRaisedOut =>
             /\ turns' = turns
             /\ user_message' = user_message
             /\ backend' = backend
             /\ invocations' = invocations]_vars
    /\ (TurnRaisedOut ~> (pc = "closed" /\ closes = 1))

\* The validation raised on a malformed arguments value in the second turn,
\* and close() has run
C19_Witness ==
    /\ TurnRaisedOut
    /\ turns = 2
    /\ validation = "TypeError"
    /\ raised[Len(raised)] = ETypeError
    /\ pc = "closed"
    /\ closes = 1

----------------------------------------------------------------------------
(* The backend calls of generate_response *)

\* The backend calls made for the render r of this turn
CallsFor(r) ==
    {j \in DOMAIN backend : /\ backend[j].kind = r.kind
                            /\ backend[j].query = r.query
                            /\ backend[j].data = r.data}

\* generate_response has returned or raised for the i-th render of the turn
RenderOver(i) == i < Len(renders) \/ pc \notin {"generate", "fallback"}

C20_Calls ==
    \A i \in DOMAIN renders :
       renders[i].kind # "refusal" =>
          LET c == CallsFor(renders[i]) IN
          /\ RenderOver(i) => Cardinality(c) >= 1
          /\ IF ENABLE_STREAMING
             THEN /\ Cardinality(c) <= 2
                  /\ \A j \in c :
                        IF \A k \in c : j <= k
                        THEN backend[j].stream
                        ELSE ~backend[j].stream /\ (j - 1) \in c
             ELSE /\ Cardinality(c) <= 1
                  /\ \A j \in c : ~backend[j].stream

\* This step calls the backend from generate_response
GenerateCalls ==
    /\ pc \in {"generate", "fallback"}
    /\ Len(backend') = Len(backend) + 1

C20_Step ==
    /\ GenerateCalls =>
          LET call == backend'[Len(backend')] IN
          /\ call.kind = prompt.kind
          /\ call.query = prompt.query
          /\ call.data = prompt.data
          /\ call.stream = (ENABLE_STREAMING /\ pc = "generate")
          /\ pc = "fallback" =>
                /\ ENABLE_STREAMING
                /\ backend[Len(backend)].stream
                /\ backend[Len(backend)].kind = prompt.kind
                /\ backend[Len(backend)].data = prompt.data
                /\ raised[Len(raised)] = EOllama
                /\ printed[Len(printed)] = "falling_back"
    /\ pc \in {"generate", "fallback"} =>
          /\ Len(printed') >= Len(printed)
          /\ SubSeq(printed', 1, Len(printed)) = printed
    /\ (pc = "fallback" /\ Len(raised') > Len(raised)) =>
          IF caller = "try"
          THEN /\ pc' = "generate"
               /\ caller' = "except"
               /\ renders' = Append(renders,
                     Render("grounded", user_message, FailureData(EOllama), <<>>))
          ELSE /\ pc' = "finally"
               /\ exit' = "error"
               /\ Printed("fatal")'

\* C20: with streaming enabled generate_response calls the backend at most
\* twice for one render, once streaming and then once non-streaming only if
\* the streaming call or its iteration raised; the chunks printed before the
\* failure stay printed, and an exception of the second call goes to the
\* caller. With streaming disabled the backend is called exactly once.
C20_AtMostTwoBackendCalls == [](C20_Calls) /\ [][C20_Step]_vars

\* A chunk was printed, the streaming call raised, the second call raised as
\* well and its exception left the turn
C20_Witness ==
    /\ ENABLE_STREAMING
    /\ pc = "finally"
    /\ exit = "error"
    /\ Len(renders) = 1
    /\ Cardinality(CallsFor(renders[1])) = 2
    /\ Printed("chunk")
    /\ Printed("stream_error")
    /\ Len(raised) = 2

====
